---- MODULE Spec2Model ----
(***************************************************************************)
(* Recording queues of pennylane: the scope stack (QueueManager), the      *)
(* annotated queue (Queue), its scoped entry and exit under the class-wide *)
(* RLock, the suspension of recording, the partitioner process_queue and   *)
(* QuantumTape, which partitions its queue on exit.                        *)
(***************************************************************************)
EXTENDS Integers, Sequences, FiniteSets, TLC

(* ------------------------------ bounds --------------------------------- *)

\* longest queue handed to process_queue in SpecPart
MaxLen == 4

\* most with-blocks a thread is inside at once
MaxDepth == 2

\* most acquisitions of Queue._lock in a run
MaxLock == 2

\* most direct calls made on one Queue in SpecQueue
MaxCalls == 3

\* most with-blocks the thread is inside at once in SpecUnwind
MaxUnwind == 3

\* most children (self.ops) of the composite instruction
MaxChildren == 2

(* --------------------------- the universe ------------------------------ *)

None == "None"

\* instruction objects (identity = name); the two scopes are Queue objects
Instr == {"o1", "o2", "m1", "m2", "n1"}
Scopes == {"A", "B"}
Objs == Instr \cup Scopes

\* Exp objects: e1 = Exp(PauliX, -1j), e2 = Exp(PauliX, 1+2j),
\* e3 = Exp(RX, -1j), e4 = Exp(PauliX, -1)
ExpObjs == {"e1", "e2", "e3", "e4"}

\* self.base.is_hermitian
ExpBaseHermitian(e) == e \in {"e1", "e2", "e4"}

\* self.coeff, as real and imaginary part
ExpCoeff(e) ==
  CASE e = "e1" -> [re |-> 0, im |-> -1]
    [] e = "e2" -> [re |-> 1, im |-> 2]
    [] e = "e3" -> [re |-> 0, im |-> -1]
    [] e = "e4" -> [re |-> -1, im |-> 0]

\* a mutant: the test of Exp.is_hermitian is used (imaginary part zero)
ExpQueueCategoryImag(e) ==
  IF ExpBaseHermitian(e) /\ ExpCoeff(e).im = 0 THEN "_ops" ELSE None

\* Exp._queue_category
Exp_queue_category(e) ==
  IF ExpBaseHermitian(e) /\ ExpCoeff(e).re = 0 THEN "_ops" ELSE None

\* getattr(obj, "_queue_category", None): o* are operations, m* measurements,
\* e* are Exp objects, n1 exposes no category, and class Queue defines none
queue_category(obj) ==
  CASE obj \in {"o1", "o2"} -> "_ops"
    [] obj \in {"m1", "m2"} -> "_measurements"
    [] obj \in ExpObjs -> Exp_queue_category(obj)
    [] OTHER -> None

\* an annotation map (the kwargs dict stored per instruction)
EmptyInfo == << >>
OwnerInfo == [owner |-> "c"]
OwnsInfo == [owns |-> "o1"]

\* dict.update(kwargs)
DictUpdate(info, kwargs) ==
  [k \in (DOMAIN info) \cup (DOMAIN kwargs) |->
     IF k \in DOMAIN kwargs THEN kwargs[k] ELSE info[k]]

VARIABLES
  stack,      \* QueueManager._recording_queues, innermost scope last
  queue,      \* queue[s]: Queue._queue of scope s, a sequence of [obj, info]
  do_queue,   \* do_queue[s]: Queue.do_queue
  circ,       \* circ[s]: the _ops and _measurements buckets of tape s
  lockOwner,  \* the thread that owns Queue._lock, or None
  lockCount,  \* the recursion level of Queue._lock
  frames,     \* frames[t]: the with-blocks thread t is inside, innermost last
  mode,       \* mode[t]: "run", "wait" (blocked in acquire) or "raise"
  pending,    \* pending[t]: the scope whose __enter__ thread t is blocked in
  last,       \* the last call made and its outcome
  nest,       \* progress of the initial run through the nesting scenario
  calls       \* the direct calls made on a Queue object, in order

vars == <<stack, queue, do_queue, circ, lockOwner, lockCount, frames, mode,
          pending, last, nest, calls>>

(* ------------------------- Queue (OrderedDict) -------------------------- *)

Keys(q) == {q[i].obj : i \in DOMAIN q}

\* list(self._queue)
QueueList(q) == [i \in DOMAIN q |-> q[i].obj]

IndexOf(q, obj) == CHOOSE i \in DOMAIN q : q[i].obj = obj

\* a mutant: a key queued again moves to the end (delete, then insert)
QAppendMoveToEnd(q, obj, kwargs) ==
  Append(SelectSeq(q, LAMBDA e : e.obj # obj), [obj |-> obj, info |-> kwargs])

\* a mutant: a key queued again keeps the annotations it had (update)
QAppendMerge(q, obj, kwargs) ==
  IF obj \in Keys(q)
  THEN [q EXCEPT ![IndexOf(q, obj)].info = DictUpdate(@, kwargs)]
  ELSE Append(q, [obj |-> obj, info |-> kwargs])

\* self._queue[obj] = kwargs: a present key keeps its position
QAppend(q, obj, kwargs) ==
  IF obj \in Keys(q)
  THEN [q EXCEPT ![IndexOf(q, obj)] = [obj |-> obj, info |-> kwargs]]
  ELSE Append(q, [obj |-> obj, info |-> kwargs])

\* a mutant: removing a key that is not queued is accepted (pop(obj, None))
QRemoveSilent(q, obj) ==
  [err |-> FALSE, q |-> SelectSeq(q, LAMBDA e : e.obj # obj)]

\* del self._queue[obj]: KeyError when obj is not a key
QRemove(q, obj) ==
  IF obj \in Keys(q)
  THEN [err |-> FALSE, q |-> SelectSeq(q, LAMBDA e : e.obj # obj)]
  ELSE [err |-> TRUE, q |-> q]

\* a mutant: a key that is not queued is inserted (setdefault, then update)
QUpdateInfoInsert(q, obj, kwargs) ==
  IF obj \in Keys(q)
  THEN [q EXCEPT ![IndexOf(q, obj)].info = DictUpdate(@, kwargs)]
  ELSE Append(q, [obj |-> obj, info |-> kwargs])

\* if obj in self._queue: self._queue[obj].update(kwargs)
QUpdateInfo(q, obj, kwargs) ==
  IF obj \in Keys(q)
  THEN [q EXCEPT ![IndexOf(q, obj)].info = DictUpdate(@, kwargs)]
  ELSE q

\* a mutant: the lookup finds no key, the default is always returned
QGetInfoDefaultOnly(q, obj) == EmptyInfo

\* self._queue.get(obj, {})
QGetInfo(q, obj) ==
  IF obj \in Keys(q) THEN q[IndexOf(q, obj)].info ELSE EmptyInfo

(* --------------------------- process_queue ------------------------------ *)

list_order(cat) == IF cat = "_ops" THEN 0 ELSE 1

\* a mutant: ownership is not looked at
EligibleIgnoringOwner(e) == queue_category(e.obj) # None

\* "owner" not in info and getattr(obj, "_queue_category", None) is not None
Eligible(e) ==
  /\ "owner" \notin DOMAIN e.info
  /\ queue_category(e.obj) # None

PQInit == [err |-> FALSE, current_list |-> "_ops", ops |-> << >>, meas |-> << >>]

PQError(st, e) ==
  [err |-> TRUE, kind |-> "ValueError", obj |-> e.obj,
   category |-> queue_category(e.obj), prior_to |-> st.current_list]

PQBucket(st, e) ==
  IF queue_category(e.obj) = "_ops"
  THEN [st EXCEPT !.ops = Append(@, e.obj)]
  ELSE [st EXCEPT !.meas = Append(@, e.obj)]

\* a mutant: a category behind the current one is bucketed, not rejected
PQVisitNoCheck(st, e) ==
  IF ~Eligible(e) THEN st
  ELSE IF list_order(queue_category(e.obj)) > list_order(st.current_list)
       THEN PQBucket([st EXCEPT !.current_list = queue_category(e.obj)], e)
       ELSE PQBucket(st, e)

\* a mutant: the instruction is put in front of its bucket
PQVisitPrepend(st, e) ==
  IF ~Eligible(e) THEN st
  ELSE IF list_order(queue_category(e.obj)) > list_order(st.current_list)
       THEN PQBucket([st EXCEPT !.current_list = queue_category(e.obj)], e)
       ELSE IF list_order(queue_category(e.obj)) < list_order(st.current_list)
            THEN PQError(st, e)
            ELSE IF queue_category(e.obj) = "_ops"
                 THEN [st EXCEPT !.ops = <<e.obj>> \o @]
                 ELSE [st EXCEPT !.meas = <<e.obj>> \o @]

\* a mutant: an instruction that is skipped resets the current list
PQVisitResetOnSkip(st, e) ==
  IF ~Eligible(e) THEN [st EXCEPT !.current_list = "_ops"]
  ELSE IF list_order(queue_category(e.obj)) > list_order(st.current_list)
       THEN PQBucket([st EXCEPT !.current_list = queue_category(e.obj)], e)
       ELSE IF list_order(queue_category(e.obj)) < list_order(st.current_list)
            THEN PQError(st, e)
            ELSE PQBucket(st, e)

\* one pass of the loop body of process_queue
PQVisit(st, e) ==
  IF ~Eligible(e) THEN st
  ELSE IF list_order(queue_category(e.obj)) > list_order(st.current_list)
       THEN PQBucket([st EXCEPT !.current_list = queue_category(e.obj)], e)
       ELSE IF list_order(queue_category(e.obj)) < list_order(st.current_list)
            THEN PQError(st, e)
            ELSE PQBucket(st, e)

RECURSIVE PQLoop(_, _, _)
PQLoop(q, i, st) ==
  IF i > Len(q) \/ st.err THEN st ELSE PQLoop(q, i + 1, PQVisit(st, q[i]))

\* a mutant: a queue without instructions is rejected
ProcessQueueRejectsEmpty(q) ==
  LET st == PQLoop(q, 1, PQInit)
  IN IF q = << >>
     THEN [err |-> TRUE, kind |-> "ValueError", obj |-> None,
           category |-> None, prior_to |-> "_ops"]
     ELSE IF st.err THEN st
          ELSE [err |-> FALSE, ops |-> st.ops, meas |-> st.meas]

\* process_queue(queue): the two tuples, or the ValueError raised
process_queue(q) ==
  LET st == PQLoop(q, 1, PQInit)
  IN IF st.err THEN st
     ELSE [err |-> FALSE, ops |-> st.ops, meas |-> st.meas]

(* ------------------------------- Init ----------------------------------- *)

Threads == {"t1", "t2"}

NoCall == [op |-> "init", t |-> None, arg |-> None, res |-> None, held |-> FALSE]

\* Circuit.__init__(self, tuple(), tuple())
EmptyCircuit == [ops |-> << >>, meas |-> << >>]

\* QuantumTape.__init__(self, do_queue=False): scope A is built with the default
TapeDoQueue == FALSE

\* nest: the scenario has been left
Off == "off"

Init ==
  /\ stack = << >>
  /\ queue = [s \in Scopes |-> << >>]
  /\ do_queue \in {f \in [Scopes -> BOOLEAN] : f["A"] = TapeDoQueue}
  /\ circ = [s \in Scopes |-> EmptyCircuit]
  /\ lockOwner = None
  /\ lockCount = 0
  /\ frames = [t \in Threads |-> << >>]
  /\ mode = [t \in Threads |-> "run"]
  /\ pending = [t \in Threads |-> None]
  /\ last = NoCall
  /\ nest = "start"
  /\ calls = << >>

(* ------------------- the partitioner on finished queues ----------------- *)

PartEntries == {[obj |-> o, info |-> i] : o \in Instr, i \in {EmptyInfo, OwnerInfo}}

\* every queue of at most MaxLen instructions, each queued once
PartQueues ==
  {q \in UNION {[1..n -> PartEntries] : n \in 0..MaxLen} :
     \A i, j \in DOMAIN q : q[i].obj = q[j].obj => i = j}

InitPart ==
  /\ stack = << >>
  /\ \E q \in PartQueues : queue = [s \in Scopes |-> IF s = "A" THEN q ELSE << >>]
  /\ do_queue = [s \in Scopes |-> FALSE]
  /\ circ = [s \in Scopes |-> EmptyCircuit]
  /\ lockOwner = None
  /\ lockCount = 0
  /\ frames = [t \in Threads |-> << >>]
  /\ mode = [t \in Threads |-> "run"]
  /\ pending = [t \in Threads |-> None]
  /\ last = NoCall
  /\ nest = Off
  /\ calls = << >>

\* process_queue(s) called on the finished queue of scope s
CallProcessQueue(s) ==
  /\ last' = [op |-> "process_queue", t |-> None, arg |-> s,
              res |-> process_queue(queue[s]), held |-> FALSE]
  /\ nest' = Off
  /\ UNCHANGED <<stack, queue, do_queue, circ, lockOwner, lockCount, frames,
                 mode, pending, calls>>

NextPart == CallProcessQueue("A")

SpecPart == InitPart /\ [][NextPart]_vars

(* ------------------ the partitioner on queues with Exp ------------------ *)

ExpEntries ==
  {[obj |-> o, info |-> i] : o \in {"o1", "m1"} \cup ExpObjs,
                             i \in {EmptyInfo, OwnerInfo}}

\* every queue of at most MaxLen of these instructions, each queued once
ExpQueues ==
  {q \in UNION {[1..n -> ExpEntries] : n \in 0..MaxLen} :
     \A i, j \in DOMAIN q : q[i].obj = q[j].obj => i = j}

InitExp ==
  /\ stack = << >>
  /\ \E q \in ExpQueues : queue = [s \in Scopes |-> IF s = "A" THEN q ELSE << >>]
  /\ do_queue = [s \in Scopes |-> FALSE]
  /\ circ = [s \in Scopes |-> EmptyCircuit]
  /\ lockOwner = None
  /\ lockCount = 0
  /\ frames = [t \in Threads |-> << >>]
  /\ mode = [t \in Threads |-> "run"]
  /\ pending = [t \in Threads |-> None]
  /\ last = NoCall
  /\ nest = Off
  /\ calls = << >>

SpecExp == InitExp /\ [][NextPart]_vars

(* ------------------------ claims on process_queue ----------------------- *)

PartRan == last.op = "process_queue"

\* entry e carries no owner annotation and exposes phase tag cat
NonOwnedTagged(e, cat) ==
  /\ "owner" \notin DOMAIN e.info
  /\ queue_category(e.obj) = cat

\* position j holds a phase-0 instruction that follows a phase-1 instruction
Backward(q, j) ==
  /\ NonOwnedTagged(q[j], "_ops")
  /\ \E i \in 1..(j - 1) : NonOwnedTagged(q[i], "_measurements")

\* the insertion order of q filtered to the non-owned instructions of cat
FilterCat(q, cat) ==
  LET sel == SelectSeq(q, LAMBDA e : NonOwnedTagged(e, cat))
  IN [i \in DOMAIN sel |-> sel[i].obj]

Range(f) == {f[i] : i \in DOMAIN f}

\* C1: partitioning fails with the ordering error exactly when a non-owned
\* phase-0 instruction follows a non-owned phase-1 instruction; the error names
\* the first such instruction and the phase it should have preceded, and no
\* buckets are returned with it.
C1_OutOfOrderExactly ==
  PartRan =>
    LET q == queue[last.arg]
        r == last.res
        bad == {j \in DOMAIN q : Backward(q, j)}
    IN /\ r.err <=> bad # {}
       /\ r.err =>
            /\ r.kind = "ValueError"
            /\ \E j \in bad : /\ \A k \in bad : j <= k
                              /\ r.obj = q[j].obj
            /\ r.category = "_ops"
            /\ r.prior_to = "_measurements"
            /\ DOMAIN r \cap {"ops", "meas"} = {}

\* [phase0, phase1, phase0], none owned, has failed on the final element
C1_Witness ==
  /\ PartRan
  /\ queue["A"] = << [obj |-> "o1", info |-> EmptyInfo],
                     [obj |-> "m1", info |-> EmptyInfo],
                     [obj |-> "o2", info |-> EmptyInfo] >>
  /\ last.res.err
  /\ last.res.obj = "o2"

\* C2: a queue whose non-owned tagged instructions never go from phase 1 back
\* to phase 0 is partitioned without error, and each bucket is the insertion
\* order filtered to the non-owned instructions of its phase.
C2_BucketsAreFilteredOrder ==
  (PartRan /\ \A j \in DOMAIN queue[last.arg] : ~Backward(queue[last.arg], j)) =>
    /\ ~last.res.err
    /\ last.res.ops = FilterCat(queue[last.arg], "_ops")
    /\ last.res.meas = FilterCat(queue[last.arg], "_measurements")

\* [phase0, phase0, phase1, phase1] has given buckets of length 2 and 2
C2_Witness ==
  /\ PartRan
  /\ QueueList(queue["A"]) = <<"o1", "o2", "m1", "m2">>
  /\ \A i \in 1..4 : queue["A"][i].info = EmptyInfo
  /\ ~last.res.err
  /\ last.res.ops = <<"o1", "o2">>
  /\ last.res.meas = <<"m1", "m2">>

\* C3: an instruction annotated with owner is in neither bucket returned.
C3_OwnedNeverBucketed ==
  (PartRan /\ ~last.res.err) =>
    \A i \in DOMAIN queue[last.arg] :
      "owner" \in DOMAIN queue[last.arg][i].info =>
        queue[last.arg][i].obj \notin Range(last.res.ops) \cup Range(last.res.meas)

\* an owned operation stands between two bucketed ones
C3_Witness ==
  /\ PartRan
  /\ QueueList(queue["A"]) = <<"o1", "o2", "m1">>
  /\ queue["A"][2].info = OwnerInfo
  /\ ~last.res.err
  /\ last.res.ops = <<"o1">>
  /\ last.res.meas = <<"m1">>

(* --------------------- direct calls on a Queue object ------------------- *)

QObjs == {"o1", "m1", "n1"}
AppendKwargs == {EmptyInfo, OwnerInfo}
UpdateKwargs == {OwnerInfo, OwnsInfo}

DirectCall(op, obj, kwargs, res) ==
  /\ calls' = Append(calls, [op |-> op, obj |-> obj, kwargs |-> kwargs])
  /\ last' = [op |-> op, t |-> None, arg |-> obj, res |-> res, held |-> FALSE]
  /\ nest' = Off
  /\ UNCHANGED <<stack, do_queue, circ, lockOwner, lockCount, frames, mode,
                 pending>>

\* s.append(obj, **kwargs)
DAppend(s, obj, kwargs) ==
  /\ Len(calls) < MaxCalls
  /\ queue' = [queue EXCEPT ![s] = QAppend(@, obj, kwargs)]
  /\ DirectCall("q.append", obj, kwargs, None)

\* s.remove(obj)
DRemove(s, obj) ==
  /\ Len(calls) < MaxCalls
  /\ queue' = [queue EXCEPT ![s] = QRemove(@, obj).q]
  /\ DirectCall("q.remove", obj, EmptyInfo,
                IF QRemove(queue[s], obj).err THEN "KeyError" ELSE None)

\* s.update_info(obj, **kwargs)
DUpdateInfo(s, obj, kwargs) ==
  /\ Len(calls) < MaxCalls
  /\ queue' = [queue EXCEPT ![s] = QUpdateInfo(@, obj, kwargs)]
  /\ DirectCall("q.update_info", obj, kwargs, None)

\* s.get_info(obj)
DGetInfo(s, obj) ==
  /\ Len(calls) < MaxCalls
  /\ queue' = queue
  /\ DirectCall("q.get_info", obj, EmptyInfo, QGetInfo(queue[s], obj))

InitQueue == Init /\ do_queue["B"]

NextQueue ==
  \E obj \in QObjs :
    \/ \E kwargs \in AppendKwargs : DAppend("A", obj, kwargs)
    \/ DRemove("A", obj)
    \/ \E kwargs \in UpdateKwargs : DUpdateInfo("A", obj, kwargs)
    \/ DGetInfo("A", obj)

SpecQueue == InitQueue /\ [][NextQueue]_vars

(* --------------------------- claims on Queue ---------------------------- *)

\* seq without the later occurrences of each element
RECURSIVE FirstOccurrences(_)
FirstOccurrences(seq) ==
  IF seq = << >> THEN << >>
  ELSE LET front == FirstOccurrences(SubSeq(seq, 1, Len(seq) - 1))
           x == seq[Len(seq)]
       IN IF x \in Range(front) THEN front ELSE Append(front, x)

OnlyAppends == \A i \in DOMAIN calls : calls[i].op = "q.append"

\* C4: after any sequence of append calls on one scope the list view holds
\* each distinct instruction once, in the order of the first appends; an
\* append of a queued instruction adds no entry and moves none.
C4_ListIsFirstAppendOrder ==
  OnlyAppends =>
    QueueList(queue["A"]) = FirstOccurrences([i \in DOMAIN calls |-> calls[i].obj])

\* o1 was appended, then m1, then o1 again with other annotations
C4_Witness ==
  /\ Len(calls) = 3
  /\ OnlyAppends
  /\ [i \in DOMAIN calls |-> calls[i].obj] = <<"o1", "m1", "o1">>
  /\ calls[1].kwargs # calls[3].kwargs
  /\ QueueList(queue["A"]) = <<"o1", "m1">>

(* ----------------------------- QueueManager ----------------------------- *)

\* bool(cls._recording_queues)
recording(stk) == stk # << >>

\* a mutant: the outermost scope is the active one (index 0)
ActiveOutermost(stk) == IF recording(stk) THEN stk[1] ELSE None

\* cls._recording_queues[-1] if cls.recording() else None
active_queue(stk) == IF recording(stk) THEN stk[Len(stk)] ELSE None

\* cls._recording_queues.append(queue)
add_recording_queue(stk, s) == Append(stk, s)

\* a mutant: the outermost scope is popped (pop(0))
RemoveOutermost(stk) ==
  IF stk = << >>
  THEN [err |-> "IndexError", stack |-> stk, popped |-> None]
  ELSE [err |-> None, stack |-> SubSeq(stk, 2, Len(stk)), popped |-> stk[1]]

\* cls._recording_queues.pop(): IndexError on an empty list
remove_recording_queue(stk) ==
  IF stk = << >>
  THEN [err |-> "IndexError", stack |-> stk, popped |-> None]
  ELSE [err |-> None, stack |-> SubSeq(stk, 1, Len(stk) - 1),
        popped |-> stk[Len(stk)]]

\* a mutant: the call is delegated although nothing records
ManagerAppendUnguarded(stk, qs, obj, kwargs) ==
  IF recording(stk)
  THEN [err |-> None, queue |-> [qs EXCEPT ![active_queue(stk)] = QAppend(@, obj, kwargs)]]
  ELSE [err |-> "AttributeError", queue |-> qs]

\* QueueManager.append
ManagerAppend(stk, qs, obj, kwargs) ==
  IF recording(stk)
  THEN [err |-> None, queue |-> [qs EXCEPT ![active_queue(stk)] = QAppend(@, obj, kwargs)]]
  ELSE [err |-> None, queue |-> qs]

\* QueueManager.remove
ManagerRemove(stk, qs, obj) ==
  IF recording(stk)
  THEN LET r == QRemove(qs[active_queue(stk)], obj)
       IN [err |-> IF r.err THEN "KeyError" ELSE None,
           queue |-> [qs EXCEPT ![active_queue(stk)] = r.q]]
  ELSE [err |-> None, queue |-> qs]

\* QueueManager.update_info
ManagerUpdateInfo(stk, qs, obj, kwargs) ==
  IF recording(stk)
  THEN [err |-> None,
        queue |-> [qs EXCEPT ![active_queue(stk)] = QUpdateInfo(@, obj, kwargs)]]
  ELSE [err |-> None, queue |-> qs]

\* QueueManager.get_info: falls off the end, returning None, when not recording
ManagerGetInfo(stk, qs, obj) ==
  IF recording(stk) THEN QGetInfo(qs[active_queue(stk)], obj) ELSE None

(* ------------------------- scoped entry and exit ------------------------ *)

\* the scopes that are QuantumTape objects; B is a plain Queue
Tapes == {"A"}

\* a mutant: the lock excludes nobody
AcquireAlways(t) == TRUE

\* RLock.acquire() returns at once for thread t
AcquireReady(t) == lockOwner \in {None, t}

\* a mutant: the scope is pushed before it registers itself
QueueEnterPushFirst(stk, qs, s, dq) ==
  [stack |-> add_recording_queue(stk, s),
   queue |-> IF dq /\ recording(add_recording_queue(stk, s))
             THEN [qs EXCEPT ![active_queue(add_recording_queue(stk, s))] =
                                QAppend(@, s, EmptyInfo)]
             ELSE qs]

\* the try block of Queue.__enter__
QueueEnter(stk, qs, s, dq) ==
  [stack |-> add_recording_queue(stk, s),
   queue |-> IF dq /\ recording(stk)
             THEN [qs EXCEPT ![active_queue(stk)] = QAppend(@, s, EmptyInfo)]
             ELSE qs]

Top(f) == f[Len(f)]
Pop(f) == SubSeq(f, 1, Len(f) - 1)

\* a with-block on scope s; saved is the stack its __enter__ found
ScopeFrame(s, stk) == [kind |-> "scope", s |-> s, saved |-> stk]
SuspendFrame(stk) == [kind |-> "suspend", s |-> None, saved |-> stk]

HasOpenScope(t) == \E i \in DOMAIN frames[t] : frames[t][i].kind = "scope"

\* progress through: enter a, enter b, append x, exit b, append y (one thread)
NestNext(ev) ==
  CASE nest = "start" /\ ev.op = "enter_call" -> "a0"
    [] nest = "a0" /\ ev.op = "enter" /\ ev.t = last.t -> "inA"
    [] nest = "inA" /\ ev.op = "enter_call" /\ ev.t = last.t /\ ev.arg # last.arg -> "b0"
    [] nest = "b0" /\ ev.op = "enter" /\ ev.t = last.t -> "inB"
    [] nest = "inB" /\ ev.op = "append" /\ ev.t = last.t -> "x"
    [] nest = "x" /\ ev.op = "exit" /\ ev.t = last.t /\ ev.res.err = None -> "out"
    [] nest = "out" /\ ev.op = "append" /\ ev.t = last.t
         /\ ev.arg \notin Keys(queue[last.arg]) -> "done"
    [] OTHER -> Off

\* the record of a call by thread t; read after lockOwner' is set
Log(op, t, arg, res) ==
  /\ last' = [op |-> op, t |-> t, arg |-> arg, res |-> res, held |-> lockOwner' = t]
  /\ nest' = NestNext([op |-> op, t |-> t, arg |-> arg, res |-> res])
  /\ calls' = calls

\* thread t reaches "with s:" and calls Queue._lock.acquire()
StartEnterUpTo(t, s, depth) ==
  /\ mode[t] = "run"
  /\ Len(frames[t]) < depth
  /\ lockCount < MaxLock
  /\ mode' = [mode EXCEPT ![t] = "wait"]
  /\ pending' = [pending EXCEPT ![t] = s]
  /\ UNCHANGED <<stack, queue, do_queue, circ, lockOwner, lockCount, frames>>
  /\ Log("enter_call", t, s, None)

StartEnter(t, s) == StartEnterUpTo(t, s, MaxDepth)

\* acquire() returns and the rest of Queue.__enter__ runs (its except branch
\* is dead: nothing in the try block raises)
CompleteEnter(t) ==
  /\ mode[t] = "wait"
  /\ AcquireReady(t)
  /\ lockOwner' = t
  /\ lockCount' = lockCount + 1
  /\ LET r == QueueEnter(stack, queue, pending[t], do_queue[pending[t]])
     IN /\ stack' = r.stack
        /\ queue' = r.queue
  /\ frames' = [frames EXCEPT ![t] = Append(@, ScopeFrame(pending[t], stack))]
  /\ mode' = [mode EXCEPT ![t] = "run"]
  /\ pending' = [pending EXCEPT ![t] = None]
  /\ UNCHANGED <<do_queue, circ>>
  /\ Log("enter", t, pending[t], None)

\* Queue.__exit__ of plain Queue s, at the end of the block or while an
\* exception unwinds through it; the lock is not released
QueueExit(t) ==
  /\ mode[t] \in {"run", "raise"}
  /\ frames[t] # << >>
  /\ Top(frames[t]).kind = "scope"
  /\ Top(frames[t]).s \notin Tapes
  /\ LET r == remove_recording_queue(stack)
     IN /\ stack' = r.stack
        /\ mode' = [mode EXCEPT ![t] = IF r.err # None THEN "raise" ELSE @]
        /\ frames' = [frames EXCEPT ![t] = Pop(@)]
        /\ UNCHANGED <<queue, do_queue, circ, lockOwner, lockCount, pending>>
        /\ Log("exit", t, Top(frames[t]).s,
               [err |-> r.err, popped |-> r.popped, before |-> Top(frames[t]).saved])

\* a mutant: a failed exit clears the buckets
TapeBucketsClearedOnError(c, p, err) ==
  IF err = None THEN [ops |-> p.ops, meas |-> p.meas] ELSE EmptyCircuit

\* self._ops, self._measurements = process_queue(self._queue): the buckets c
\* of the tape after its __exit__; the assignment is not reached when the pop
\* or process_queue raised
TapeBuckets(c, p, err) ==
  IF err = None THEN [ops |-> p.ops, meas |-> p.meas] ELSE c

\* QuantumTape.__exit__ of tape s: pop, then _process_queue
TapeExit(t) ==
  /\ mode[t] \in {"run", "raise"}
  /\ frames[t] # << >>
  /\ Top(frames[t]).kind = "scope"
  /\ Top(frames[t]).s \in Tapes
  /\ LET s == Top(frames[t]).s
         r == remove_recording_queue(stack)
         p == process_queue(queue[s])
         err == IF r.err # None THEN r.err
                ELSE IF p.err THEN p.kind ELSE None
     IN /\ stack' = r.stack
        /\ circ' = [circ EXCEPT ![s] = TapeBuckets(@, p, err)]
        /\ mode' = [mode EXCEPT ![t] = IF err # None THEN "raise" ELSE @]
        /\ frames' = [frames EXCEPT ![t] = Pop(@)]
        /\ UNCHANGED <<queue, do_queue, lockOwner, lockCount, pending>>
        /\ Log("exit", t, s,
               [err |-> err, popped |-> r.popped, before |-> Top(frames[t]).saved])

(* ------------------------------ suspension ------------------------------ *)

\* stop_recording up to its yield (QueueManager.stop_recording and
\* Queue.stop_recording have the same body)
SuspendUpTo(t, depth) ==
  /\ mode[t] = "run"
  /\ Len(frames[t]) < depth
  /\ frames' = [frames EXCEPT ![t] = Append(@, SuspendFrame(stack))]
  /\ stack' = << >>
  /\ UNCHANGED <<queue, do_queue, circ, lockOwner, lockCount, mode, pending>>
  /\ Log("suspend", t, None, None)

Suspend(t) == SuspendUpTo(t, MaxDepth)

\* the generator after its yield: resumed at the end of the block it
\* restores the stack; an exception thrown in at the yield leaves it at once
Release(t) ==
  /\ mode[t] \in {"run", "raise"}
  /\ frames[t] # << >>
  /\ Top(frames[t]).kind = "suspend"
  /\ stack' = IF mode[t] = "run" THEN Top(frames[t]).saved ELSE stack
  /\ frames' = [frames EXCEPT ![t] = Pop(@)]
  /\ UNCHANGED <<queue, do_queue, circ, lockOwner, lockCount, mode, pending>>
  /\ Log("release", t, None,
         [raised |-> mode[t] = "raise", saved |-> Top(frames[t]).saved])

(* --------------------------- the block bodies --------------------------- *)

\* the body of a with-block raises
Raise(t) ==
  /\ mode[t] = "run"
  /\ frames[t] # << >>
  /\ mode' = [mode EXCEPT ![t] = "raise"]
  /\ UNCHANGED <<stack, queue, do_queue, circ, lockOwner, lockCount, frames, pending>>
  /\ Log("raise", t, None, None)

\* an except clause around the blocks left so far handles the exception
Catch(t) ==
  /\ mode[t] = "raise"
  /\ mode' = [mode EXCEPT ![t] = "run"]
  /\ UNCHANGED <<stack, queue, do_queue, circ, lockOwner, lockCount, frames, pending>>
  /\ Log("catch", t, None, None)

MObjs == {"o1", "m1"}

\* QueueManager.append(obj, **kwargs) called by thread t
MAppend(t, obj, kwargs) ==
  /\ mode[t] = "run"
  /\ LET r == ManagerAppend(stack, queue, obj, kwargs)
     IN /\ queue' = r.queue
        /\ mode' = [mode EXCEPT ![t] = IF r.err # None THEN "raise" ELSE @]
        /\ UNCHANGED <<stack, do_queue, circ, lockOwner, lockCount, frames, pending>>
        /\ Log("append", t, obj, [err |-> r.err, into |-> active_queue(stack)])

\* QueueManager.remove(obj) called by thread t
MRemove(t, obj) ==
  /\ mode[t] = "run"
  /\ LET r == ManagerRemove(stack, queue, obj)
     IN /\ queue' = r.queue
        /\ mode' = [mode EXCEPT ![t] = IF r.err # None THEN "raise" ELSE @]
        /\ UNCHANGED <<stack, do_queue, circ, lockOwner, lockCount, frames, pending>>
        /\ Log("remove", t, obj, [err |-> r.err, into |-> active_queue(stack)])

\* QueueManager.update_info(obj, **kwargs) called by thread t
MUpdateInfo(t, obj, kwargs) ==
  /\ mode[t] = "run"
  /\ LET r == ManagerUpdateInfo(stack, queue, obj, kwargs)
     IN /\ queue' = r.queue
        /\ mode' = [mode EXCEPT ![t] = IF r.err # None THEN "raise" ELSE @]
        /\ UNCHANGED <<stack, do_queue, circ, lockOwner, lockCount, frames, pending>>
        /\ Log("update_info", t, obj, [err |-> r.err, into |-> active_queue(stack)])

\* QueueManager.get_info(obj) called by thread t
MGetInfo(t, obj) ==
  /\ mode[t] = "run"
  /\ UNCHANGED <<stack, queue, do_queue, circ, lockOwner, lockCount, frames, mode,
                 pending>>
  /\ Log("get_info", t, obj, [err |-> None, value |-> ManagerGetInfo(stack, queue, obj)])

(* ----------------------- the composite instruction --------------------- *)

\* the HamiltonainEncoding object; OwnerInfo is the annotation owner=self
Composite == "c"

\* the instructions that self.ops is drawn from
CompChildren == {"o1", "o2", "m1"}

\* self.ops: up to MaxChildren distinct instructions, in order
ChildLists ==
  {ops \in UNION {[1..n -> CompChildren] : n \in 0..MaxChildren} :
     \A i, j \in DOMAIN ops : ops[i] = ops[j] => i = j}

\* context.safe_update_info(obj, **kwargs): the annotation update that does
\* nothing, and raises nothing, for an instruction that is not queued
safe_update_info(stk, qs, obj, kwargs) == ManagerUpdateInfo(stk, qs, obj, kwargs)

\* the loop of HamiltonainEncoding.queue from child i on
RECURSIVE QueueChildren(_, _, _, _)
QueueChildren(stk, qs, ops, i) ==
  IF i > Len(ops) THEN qs
  ELSE LET upd == safe_update_info(stk, qs, ops[i], [owner |-> Composite]).queue
           app == ManagerAppend(stk, upd, Composite, [owns |-> ops[i]]).queue
       IN QueueChildren(stk, app, ops, i + 1)

\* HamiltonainEncoding.queue() of the composite with self.ops = ops; the one
\* composite object queues itself once
HamiltonainEncoding_queue(t, ops) ==
  /\ mode[t] = "run"
  /\ calls = << >>
  /\ queue' = QueueChildren(stack, queue, ops, 1)
  /\ calls' = <<[op |-> "queue", obj |-> Composite, kwargs |-> EmptyInfo]>>
  /\ last' = [op |-> "queue", t |-> t, arg |-> ops,
              res |-> [err |-> None, into |-> active_queue(stack)],
              held |-> lockOwner = t]
  /\ nest' = Off
  /\ UNCHANGED <<stack, do_queue, circ, lockOwner, lockCount, frames, mode, pending>>

Step(t) ==
  \/ \E s \in Scopes : StartEnter(t, s)
  \/ CompleteEnter(t)
  \/ QueueExit(t)
  \/ TapeExit(t)
  \/ Suspend(t)
  \/ Release(t)
  \/ Raise(t)
  \/ Catch(t)
  \/ \E obj \in MObjs : MAppend(t, obj, EmptyInfo)
  \/ \E obj \in MObjs : MRemove(t, obj)
  \/ MUpdateInfo(t, "o1", OwnerInfo)
  \/ \E obj \in MObjs : MGetInfo(t, obj)

\* one thread records
Next == Step("t1")

Spec == Init /\ [][Next]_vars

(* ------------------- deeper nesting, scopes only ------------------------ *)

\* one thread enters, leaves, suspends and raises, up to MaxUnwind blocks deep
NextUnwind ==
  \/ \E s \in Scopes : StartEnterUpTo("t1", s, MaxUnwind)
  \/ CompleteEnter("t1")
  \/ QueueExit("t1")
  \/ TapeExit("t1")
  \/ SuspendUpTo("t1", MaxUnwind)
  \/ Release("t1")
  \/ Raise("t1")
  \/ Catch("t1")

SpecUnwind == Init /\ [][NextUnwind]_vars

(* ------------------------ recording a composite ------------------------ *)

\* one thread opens the plain Queue B, constructs children in it and queues
\* the composite
NextComp ==
  \/ StartEnter("t1", "B")
  \/ CompleteEnter("t1")
  \/ QueueExit("t1")
  \/ \E obj \in CompChildren : MAppend("t1", obj, EmptyInfo)
  \/ \E ops \in ChildLists : HamiltonainEncoding_queue("t1", ops)

SpecComp == Init /\ [][NextComp]_vars

(* ------------------------------ two threads ----------------------------- *)

ConcStep(t) ==
  \/ \E s \in Scopes : StartEnter(t, s)
  \/ CompleteEnter(t)
  \/ QueueExit(t)
  \/ TapeExit(t)
  \/ MAppend(t, "o1", EmptyInfo)
  \/ MRemove(t, "o1")
  \/ MUpdateInfo(t, "o1", OwnerInfo)

NextConc == \E t \in Threads : ConcStep(t)

SpecConc == Init /\ [][NextConc]_vars

(* ------------------------- claims on the scopes ------------------------- *)

\* C5: with scope a active, entering scope b, appending x ambiently, exiting
\* b and appending y ambiently leaves the queue of a equal to [b, y] when b
\* registers itself and to [y] when it does not; x is in the queue of b and
\* not in the queue of a.
C5_Nesting ==
  nest = "done" =>
    LET a == stack[1]
        b == CHOOSE s \in Scopes : s # stack[1]
        y == last.arg
    IN /\ stack = <<a>>
       /\ QueueList(queue[a]) = (IF do_queue[b] THEN <<b>> ELSE << >>) \o <<y>>
       /\ \E x \in MObjs : /\ x # y
                           /\ QueueList(queue[b]) = <<x>>
                           /\ x \notin Keys(queue[a])

\* the scenario has run with tape A outside and a self-registering B inside
C5_Witness ==
  /\ nest = "done"
  /\ stack = <<"A">>
  /\ do_queue["B"]
  /\ QueueList(queue["A"]) = <<"B", "m1">>
  /\ QueueList(queue["B"]) = <<"o1">>

\* C6: when a suspended region is left, by its end or by an error raised in
\* it, the scope stack is the one that was detached, so current() is what it
\* was before the suspension.
C6_SuspendRestores ==
  last.op = "release" =>
    /\ stack = last.res.saved
    /\ active_queue(stack) = active_queue(last.res.saved)

\* C7: once every thread has left all the scopes it entered and none is
\* inside an entry, the scope-entry lock is free.
C7_LockFreeAfterExit ==
  (\A t \in Threads : ~HasOpenScope(t) /\ mode[t] # "wait") => lockOwner = None

\* C8: a thread with a scope open owns the lock, so its next acquire returns
\* at once (the lock is reentrant), and no other thread can acquire it or has
\* a scope open.
C8_ReentrantExclusive ==
  \A t \in Threads :
    HasOpenScope(t) =>
      /\ lockOwner = t
      /\ AcquireReady(t)
      /\ \A u \in Threads \ {t} : ~AcquireReady(u) /\ ~HasOpenScope(u)

\* t1 is inside two nested scopes while t2 is blocked in its entry
C8_Witness ==
  /\ Len(frames["t1"]) = 2
  /\ \A i \in 1..2 : frames["t1"][i].kind = "scope"
  /\ lockCount = 2
  /\ mode["t2"] = "wait"

\* C9 as claimed: every push, pop and routed append, remove or update_info is
\* made by a thread that holds the lock.
C9_AllMutationsUnderLock ==
  \/ /\ last.op \in {"enter", "exit"}
     /\ last.held
  \/ /\ last.op \in {"append", "remove", "update_info"}
     /\ last.res.into # None => last.held
  \/ last.op \notin {"enter", "exit", "append", "remove", "update_info"}

\* C9 as amended: the push of an entry and the pop of an exit are made by the
\* thread that holds the lock, and every scope on the stack was entered by it.
C9_PushPopUnderLock ==
  /\ last.op \in {"enter", "exit"} => last.held /\ lockOwner = last.t
  /\ stack # << >> =>
       /\ lockOwner # None
       /\ \A u \in Threads \ {lockOwner} : ~HasOpenScope(u)

\* t1 has left scope B, holding the lock, while t2 is blocked in its entry
C9_Witness ==
  /\ last.op = "exit"
  /\ last.t = "t1"
  /\ last.held
  /\ last.res.popped = "B"
  /\ lockOwner = "t1"
  /\ mode["t2"] = "wait"

\* C10: with no scope active, append, remove and update_info through the
\* manager change nothing and raise nothing, and get_info raises nothing and
\* returns the empty result None, whatever the instruction.
C10_NoScopeNoOp ==
  [][(/\ last'.op \in {"append", "remove", "update_info", "get_info"}
      /\ ~recording(stack))
       => /\ UNCHANGED <<stack, queue, do_queue, circ, lockOwner, lockCount,
                         frames, mode, pending>>
          /\ last'.res.err = None
          /\ last'.op = "get_info" => last'.res.value = None]_vars

\* remove of an instruction queued nowhere returned while nothing records
C10_Witness ==
  /\ last.op = "remove"
  /\ last.arg = "m1"
  /\ stack = << >>
  /\ \A s \in Scopes : "m1" \notin Keys(queue[s])
  /\ last.res.err = None
  /\ mode["t1"] = "run"

\* C11: when the exit of a scope has run, the scope stack is the one that the
\* entry of that scope found.
C11_ExitRestoresStack ==
  last.op = "exit" => stack = last.res.before

\* C12: the pop of an exit made on an empty stack fails with IndexError and
\* leaves the stack empty; made on a non-empty stack it removes and returns
\* exactly the innermost scope and leaves the others in their order.
C12_PopInnermostOrFail ==
  [][last'.op = "exit" =>
       IF stack = << >>
       THEN /\ last'.res.err = "IndexError"
            /\ last'.res.popped = None
            /\ stack' = << >>
       ELSE /\ last'.res.err # "IndexError"
            /\ last'.res.popped = stack[Len(stack)]
            /\ Len(stack') = Len(stack) - 1
            /\ \A i \in DOMAIN stack' : stack'[i] = stack[i]]_vars

\* the exit of scope B found the stack empty, failed with IndexError and
\* left it empty
C12_Witness ==
  /\ last.op = "exit"
  /\ last.arg = "B"
  /\ last.res.err = "IndexError"
  /\ last.res.popped = None
  /\ stack = << >>

\* the annotations info name child as owned
OwnsCovers(info, child) == "owns" \in DOMAIN info /\ info.owns = child

\* C13: once the composite has queued itself in the active scope, every child
\* that is in that queue is annotated with owner = composite, and the
\* composite is in the queue with an owns annotation covering every child,
\* for any number of children, none included.
C13_CompositeOwnsAll ==
  (last.op = "queue" /\ last.res.into # None) =>
    LET q == queue[last.res.into]
        ops == last.arg
    IN /\ \A i \in DOMAIN ops :
            ops[i] \in Keys(q) =>
              /\ "owner" \in DOMAIN QGetInfo(q, ops[i])
              /\ QGetInfo(q, ops[i]).owner = Composite
       /\ Composite \in Keys(q)
       /\ \A i \in DOMAIN ops : OwnsCovers(QGetInfo(q, Composite), ops[i])

\* C14: the exit of a tape that directly follows its entry, with no
\* instruction in its queue, raises nothing, discards the scope and leaves
\* both buckets of the tape empty.
C14_EmptyRoundTrip ==
  [][(/\ last.op = "enter"
      /\ last.arg \in Tapes
      /\ queue[last.arg] = << >>
      /\ last'.op = "exit")
       => /\ last'.arg = last.arg
          /\ last'.res.err = None
          /\ last'.res.popped = last.arg
          /\ stack' = last'.res.before
          /\ circ'[last.arg] = EmptyCircuit]_vars

\* tape A has been left without error with nothing queued in it
C14_Witness ==
  /\ last.op = "exit"
  /\ last.arg = "A"
  /\ last.res.err = None
  /\ last.res.popped = "A"
  /\ queue["A"] = << >>
  /\ circ["A"] = EmptyCircuit
  /\ stack = << >>

\* C15 as claimed: the buckets of a tape that has closed and produced them
\* (they are not empty) are the same after every later operation.
C15_BucketsNeverChange ==
  [][\A s \in Tapes : circ[s] # EmptyCircuit => circ'[s] = circ[s]]_vars

\* C15 as amended: the buckets of a tape change only in an exit of that same
\* tape that raises nothing, which sets them to the partition of its queue;
\* every other operation, and an exit that fails, leaves them as they are.
C15_BucketsChangeOnlyOnOwnExit ==
  [][\A s \in Tapes :
       circ'[s] # circ[s] =>
         /\ last'.op = "exit"
         /\ last'.arg = s
         /\ last'.res.err = None
         /\ ~process_queue(queue[s]).err
         /\ circ'[s].ops = process_queue(queue[s]).ops
         /\ circ'[s].meas = process_queue(queue[s]).meas]_vars

\* tape A closed with o1 in its operations bucket; it was entered again and
\* o1 removed from its queue, and the bucket still holds o1
C15_Witness ==
  /\ circ["A"] = [ops |-> <<"o1">>, meas |-> << >>]
  /\ last.op = "remove"
  /\ last.res.err = None
  /\ last.res.into = "A"
  /\ queue["A"] = << >>
  /\ stack = <<"A">>

\* C16: a removal routed to the active scope deletes exactly the entry of the
\* instruction and keeps the other entries, their order and annotations; for
\* an instruction that is not queued there it fails with KeyError, which
\* reaches the caller, and leaves the queue as it was.
C16_RemoveExactlyOrFail ==
  [][(last'.op = "remove" /\ recording(stack)) =>
       LET s == active_queue(stack)
           q == queue[s]
           obj == last'.arg
       IN /\ \A u \in Scopes \ {s} : queue'[u] = queue[u]
          /\ IF obj \in Keys(q)
             THEN /\ last'.res.err = None
                  /\ mode' = mode
                  /\ Len(queue'[s]) = Len(q) - 1
                  /\ \A i \in DOMAIN queue'[s] :
                       queue'[s][i] = IF i < IndexOf(q, obj) THEN q[i] ELSE q[i + 1]
             ELSE /\ last'.res.err = "KeyError"
                  /\ mode'[last'.t] = "raise"
                  /\ queue'[s] = q]_vars

\* a removal of an instruction not queued in the active scope B, which holds
\* another one, has raised KeyError
C16_Witness ==
  /\ last.op = "remove"
  /\ last.res.err = "KeyError"
  /\ last.res.into = "B"
  /\ last.arg \notin Keys(queue["B"])
  /\ queue["B"] # << >>
  /\ mode["t1"] = "raise"

\* the call just made on the Queue
LastCall == calls'[Len(calls')]

\* C17: after an append of a queued instruction its annotations are exactly
\* those of that append; after update_info on a queued instruction they are
\* the earlier ones with the given keys added or overwritten.
C17_AppendOverwritesUpdateMerges ==
  [][/\ last'.op = "q.append" =>
          QGetInfo(queue'["A"], last'.arg) = LastCall.kwargs
     /\ (last'.op = "q.update_info" /\ last'.arg \in Keys(queue["A"])) =>
          LET old == QGetInfo(queue["A"], last'.arg)
              new == QGetInfo(queue'["A"], last'.arg)
              kw == LastCall.kwargs
          IN /\ DOMAIN new = DOMAIN old \cup DOMAIN kw
             /\ \A k \in DOMAIN kw : new[k] = kw[k]
             /\ \A k \in DOMAIN old \ DOMAIN kw : new[k] = old[k]]_vars

\* o1 was appended with owner, given owns by update_info, and appended again
\* without annotations: it has none
C17_Witness ==
  /\ Len(calls) = 3
  /\ calls[1] = [op |-> "q.append", obj |-> "o1", kwargs |-> OwnerInfo]
  /\ calls[2] = [op |-> "q.update_info", obj |-> "o1", kwargs |-> OwnsInfo]
  /\ calls[3] = [op |-> "q.append", obj |-> "o1", kwargs |-> EmptyInfo]
  /\ queue["A"] = <<[obj |-> "o1", info |-> EmptyInfo]>>

\* C18: update_info on an instruction that is not queued leaves the queue as
\* it is, the instruction not inserted, and raises nothing.
C18_UpdateAbsentNoOp ==
  [][(last'.op = "q.update_info" /\ last'.arg \notin Keys(queue["A"])) =>
       /\ queue' = queue
       /\ last'.arg \notin Keys(queue'["A"])
       /\ last'.res = None]_vars

\* update_info was called on m1, which is not in a queue that holds o1
C18_Witness ==
  /\ last.op = "q.update_info"
  /\ last.arg = "m1"
  /\ QueueList(queue["A"]) = <<"o1">>
  /\ last.res = None

\* C19: get_info leaves the queue as it is, returns the annotations of a
\* queued instruction and an empty map for one that is not queued, without
\* inserting it, and a repeated call returns an equal map.
C19_GetInfoPure ==
  [][last'.op = "q.get_info" =>
       /\ queue' = queue
       /\ last'.arg \in Keys(queue["A"]) =>
            last'.res = queue["A"][IndexOf(queue["A"], last'.arg)].info
       /\ last'.arg \notin Keys(queue["A"]) => last'.res = EmptyInfo
       /\ (last.op = "q.get_info" /\ last.arg = last'.arg) => last'.res = last.res]_vars

\* get_info was called twice on n1, which is not in a queue that holds o1
C19_Witness ==
  /\ Len(calls) = 3
  /\ calls[2] = [op |-> "q.get_info", obj |-> "n1", kwargs |-> EmptyInfo]
  /\ calls[3] = calls[2]
  /\ last.res = EmptyInfo
  /\ QueueList(queue["A"]) = <<"o1">>

\* C20: an Exp exposes the phase tag "_ops" exactly when its base is
\* Hermitian and the real part of its coefficient is zero, and None
\* otherwise; an Exp that exposes None is in neither bucket and is never the
\* instruction an ordering error names, wherever it stands in the queue.
C20_ExpCategory ==
  PartRan =>
    \A i \in DOMAIN queue[last.arg] :
      LET e == queue[last.arg][i].obj
          tagged == ExpBaseHermitian(e) /\ ExpCoeff(e).re = 0
      IN e \in ExpObjs =>
           /\ queue_category(e) = (IF tagged THEN "_ops" ELSE None)
           /\ ~tagged =>
                /\ last.res.err => last.res.obj # e
                /\ ~last.res.err =>
                     e \notin Range(last.res.ops) \cup Range(last.res.meas)

\* a measurement followed by three Exp that expose no tag: no error, and the
\* measurement alone is bucketed
C20_Witness ==
  /\ PartRan
  /\ queue["A"] = << [obj |-> "m1", info |-> EmptyInfo],
                     [obj |-> "e2", info |-> EmptyInfo],
                     [obj |-> "e3", info |-> EmptyInfo],
                     [obj |-> "e4", info |-> EmptyInfo] >>
  /\ ~last.res.err
  /\ last.res.ops = << >>
  /\ last.res.meas = <<"m1">>

\* entry e carries an owner annotation or exposes no phase tag
Skipped(e) == "owner" \in DOMAIN e.info \/ queue_category(e.obj) = None

\* C21: the outcome of partitioning a queue, error or buckets, is the outcome
\* of partitioning the queue without its instructions that carry an owner
\* annotation or expose no phase tag, wherever and however many they are.
C21_SkippedChangeNothing ==
  PartRan =>
    last.res = process_queue(SelectSeq(queue[last.arg], LAMBDA e : ~Skipped(e)))

\* an owned phase-0 instruction and an untagged one stand between two
\* measurements: no error, and the buckets are those of [m1, m2]
C21_Witness ==
  /\ PartRan
  /\ queue["A"] = << [obj |-> "m1", info |-> EmptyInfo],
                     [obj |-> "o1", info |-> OwnerInfo],
                     [obj |-> "n1", info |-> EmptyInfo],
                     [obj |-> "m2", info |-> EmptyInfo] >>
  /\ ~last.res.err
  /\ last.res.ops = << >>
  /\ last.res.meas = <<"m1", "m2">>

\* the scopes that the suspended regions thread t is inside have detached
Suspended(t) ==
  UNION {Range(frames[t][i].saved) :
           i \in {j \in DOMAIN frames[t] : frames[t][j].kind = "suspend"}}

\* C22: a suspension leaves no scope active; while a thread is inside
\* suspended regions no call, entry or exit changes the queue of a detached
\* scope (one that was not entered again inside the region); and each
\* release, the innermost region first, puts back the stack its suspension
\* detached.
C22_SuspensionIsolates ==
  [][/\ last'.op = "suspend" =>
          /\ ~recording(stack')
          /\ active_queue(stack') = None
     /\ \A t \in Threads :
          \A s \in Suspended(t) \ Range(stack) : queue'[s] = queue[s]
     /\ last'.op = "release" => stack' = last'.res.saved]_vars

\* C23: the entry of scope S appends S to the queue of the previously
\* innermost scope exactly when S registers itself (do_queue) and a scope is
\* active, and then pushes S; no other queue changes, S is not in its own
\* queue, and an entry that does not register changes no queue.
C23_SelfRegisterBeforePush ==
  [][last'.op = "enter" =>
       LET S == last'.arg
           prev == active_queue(stack)
       IN /\ stack' = Append(stack, S)
          /\ S \notin Keys(queue'[S])
          /\ IF do_queue[S] /\ recording(stack)
             THEN /\ S \in Keys(queue'[prev])
                  /\ QueueList(queue'[prev]) =
                       (IF S \in Keys(queue[prev]) THEN QueueList(queue[prev])
                        ELSE Append(QueueList(queue[prev]), S))
                  /\ \A i \in DOMAIN queue[prev] :
                       queue[prev][i].obj # S => queue'[prev][i] = queue[prev][i]
                  /\ \A u \in Scopes \ {prev} : queue'[u] = queue[u]
             ELSE queue' = queue]_vars

\* C24: an append, remove or update_info made through the manager while
\* scopes are nested acts on the queue of the innermost scope; the queues of
\* all other scopes and the stack are unchanged.
C24_OnlyInnermostAffected ==
  [][(last'.op \in {"append", "remove", "update_info"} /\ recording(stack)) =>
       LET top == stack[Len(stack)]
       IN /\ stack' = stack
          /\ \A s \in Scopes \ {top} : queue'[s] = queue[s]
          /\ last'.op = "append" => last'.arg \in Keys(queue'[top])
          /\ last'.op = "remove" =>
               IF last'.arg \in Keys(queue[top])
               THEN last'.arg \notin Keys(queue'[top])
               ELSE last'.res.err = "KeyError"]_vars

\* inside A and, in it, B: o1 was appended and is in the queue of B only
C24_Witness ==
  /\ stack = <<"A", "B">>
  /\ last.op = "append"
  /\ last.arg = "o1"
  /\ "o1" \in Keys(queue["B"])
  /\ "o1" \notin Keys(queue["A"])

\* C25: an exit of a tape leaves its queue as it is; when process_queue
\* fails in it, the tape has been popped before, the error reaches the
\* caller, the buckets keep their values, and partitioning the queue again
\* fails in the same way.
C25_FailedExitPopsKeepsBuckets ==
  [][(last'.op = "exit" /\ last'.arg \in Tapes) =>
       LET s == last'.arg
       IN /\ queue' = queue
          /\ process_queue(queue'[s]) = process_queue(queue[s])
          /\ last'.res.err = "ValueError" =>
               /\ process_queue(queue'[s]).err
               /\ stack # << >>
               /\ last'.res.popped = s
               /\ stack' = SubSeq(stack, 1, Len(stack) - 1)
               /\ circ' = circ
               /\ mode'[last'.t] = "raise"]_vars

\* the exit of the fresh tape A with queue [m1, o1] failed: nothing records
\* and the buckets are empty
C25_Witness ==
  /\ last.op = "exit"
  /\ last.arg = "A"
  /\ last.res.err = "ValueError"
  /\ QueueList(queue["A"]) = <<"m1", "o1">>
  /\ stack = << >>
  /\ circ["A"] = EmptyCircuit

====
